---- MODULE Spec2Model ----
(***************************************************************************)
(* Model of the Hubitat hub client (homeassistant/components/hubitat):     *)
(* HubitatHub (hubitat.py), HubitatDevice (device.py), HubitatLight       *)
(* (light.py) and the webhook handler handle_event (__init__.py).          *)
(*                                                                         *)
(* Python values are tagged records, so that truthiness (`if not host`,    *)
(* `if arg`) and str() are computed as Python computes them.               *)
(***************************************************************************)
EXTENDS Integers, Sequences, FiniteSets, TLC

VARIABLES
    hub,          \* the HubitatHub object: [made, host, app_id, token, api]
    ctorArgs,     \* arguments of the last HubitatHub(...) call
    ctorResult,   \* its outcome: "none", "ok" or "InvalidConfig"
    info,         \* self.info: Unset or the parsed hub details
    devices,      \* self.devices: [set, map]; set = FALSE while the attribute does not exist
    listeners,    \* self.listeners: device id -> sequence of listeners
    connectPc,    \* the caller of connect(): "idle", "gathering", "ok", "failed"
    connectErr,   \* the exception connect() raised ("" if none)
    infoTask,     \* the _load_info task: "none", "awaiting", "done", "failed"
    devTask,      \* the _load_devices call: [pc, force, todo, err, ctx]
    fetches,      \* _load_device calls awaiting their response: Seq([dev, owner, ov])
    reqs,         \* every HTTP request issued so far: Seq([op, method, url, dev, state])
    hubFault,     \* the hub answered some request of the current connect()/load with an error
    hubVal,       \* hub-side truth: device id -> current value of its "level" attribute
    lastPayload,  \* device id -> "level" value of the last valid full-info payload delivered
    listed,       \* the device summary list the hub last returned (<<>> if none)
    lastRefresh,  \* the last finished refresh_device call: [dev, res, registered, overlapped]
    lastLoad,     \* the last _load_device call made on its own: [dev, force, before, fetched, res]
    light,        \* the HubitatLight entity: its async_turn_on call and last brightness read
    invoked,      \* listeners invoked by the last notify, in order
    lastRead,     \* the last get_device_attribute call: [dev, name, err, value, state, rec]
    lastCmd,      \* the last send_command call: [dev, command, arg, url, res, state]
    lastEvent,    \* the last event handled: [src, body, res]
    bus           \* events fired on the platform bus by handle_event

vars == <<hub, ctorArgs, ctorResult, info, devices, listeners, connectPc, connectErr,
          infoTask, devTask, fetches, reqs, hubFault, hubVal, lastPayload, listed,
          lastRefresh, lastLoad, light, invoked, lastRead, lastCmd, lastEvent, bus>>

----------------------------------------------------------------------------
(* Bounds of the model *)

MaxReqs == 3        \* HTTP requests issued in one behaviour
MaxFetches == 2     \* _load_device calls in flight at once
MaxListeners == 2   \* listeners registered per device
MaxBus == 2         \* events kept on the bus log

----------------------------------------------------------------------------
(* Python values *)

PyNone == [t |-> "none", s |-> "", i |-> 0]
PyStr(x) == [t |-> "str", s |-> x, i |-> 0]
PyInt(n) == [t |-> "int", s |-> "", i |-> n]

\* bool(x): None, "" and 0 are falsy
Truthy(x) ==
    CASE x.t = "none" -> FALSE
      [] x.t = "str" -> x.s # ""
      [] x.t = "int" -> x.i # 0

\* str(x), as an f-string formats it
Str(x) ==
    CASE x.t = "none" -> "None"
      [] x.t = "str" -> x.s
      [] x.t = "int" -> ToString(x.i)

Unset == "UNSET"

----------------------------------------------------------------------------
(* The hub's devices *)

DeviceIds == {"42", "7"}
HubDevices == <<"42", "7">>          \* the hub's device list, in its order
Levels == {"10", "50"}
AttrNames == {"level", "switch", "hue"}

NoAttr == [name |-> "", currentValue |-> ""]
NoRecord == [present |-> FALSE, id |-> "", attributes |-> <<>>]

\* the full-info JSON of device d when its level is v
HubPayload(d, v) ==
    [present |-> TRUE, id |-> d,
     attributes |-> << [name |-> "level", currentValue |-> v],
                       [name |-> "switch", currentValue |-> "on"] >>]

----------------------------------------------------------------------------
(* HubitatHub.__init__ *)

\* the checks with the one of access_token left out
ctor_check_no_token(host, app_id, access_token) ==
    IF ~Truthy(host) THEN "InvalidConfig"
    ELSE IF ~Truthy(app_id) THEN "InvalidConfig"
    ELSE "ok"

\* the three `if not x: raise InvalidConfig` checks
ctor_check(host, app_id, access_token) ==
    IF ~Truthy(host) THEN "InvalidConfig"
    ELSE IF ~Truthy(app_id) THEN "InvalidConfig"
    ELSE IF ~Truthy(access_token) THEN "InvalidConfig"
    ELSE "ok"

\* self.api = f"http://{host}/apps/api/{app_id}"
api_of(host, app_id) == "http://" \o Str(host) \o "/apps/api/" \o Str(app_id)

NoHub == [made |-> FALSE, host |-> "", app_id |-> "", token |-> "", api |-> ""]

\* self.devices and self.info are only annotated, never assigned
InitDevices == [set |-> FALSE, map |-> [d \in DeviceIds |-> NoRecord]]
InitInfo == Unset

HostArgs == {PyNone, PyStr(""), PyStr("hub"), PyStr("10.0.0.2")}
AppIdArgs == {PyNone, PyStr(""), PyStr("7")}
TokenArgs == {PyNone, PyStr(""), PyStr("tok")}
NoArgs == <<PyNone, PyNone, PyNone>>

----------------------------------------------------------------------------
(* HubitatHub.send_command *)

\* url = f"http://{self.api}/devices/{device_id}/{command}"; if arg: url += f"/{arg}"
send_command_url(api, device_id, command, arg) ==
    "http://" \o api \o "/devices/" \o device_id \o "/" \o command
        \o (IF Truthy(arg) THEN "/" \o Str(arg) ELSE "")

\* HubitatDevice._send_command: arg = ",".join([str(a) for a in args])
RECURSIVE join_args(_)
join_args(args) ==
    IF args = <<>> THEN ""
    ELSE IF Len(args) = 1 THEN Str(args[1])
    ELSE Str(args[1]) \o "," \o join_args(Tail(args))

\* the calls of send_command the model makes: <<device id, command, arg>>
CommandCalls ==
    { <<"42", "on", PyNone>>,
      <<"42", "setLevel", PyInt(50)>>,
      <<"42", "setLevel", PyInt(0)>>,
      <<"7", "setColor", PyStr(join_args(<<PyInt(10), PyInt(20), PyInt(30)>>))>>,
      <<"7", "on", PyStr(join_args(<<>>))>> }

----------------------------------------------------------------------------
(* HubitatHub.get_device_attribute *)

\* state = self.devices[device_id]; scan state["attributes"] for the name
get_device_attribute(devs, device_id, attr_name) ==
    IF ~devs.set THEN [err |-> "AttributeError", attr |-> NoAttr]
    ELSE IF ~devs.map[device_id].present THEN [err |-> "KeyError", attr |-> NoAttr]
    ELSE LET attrs == devs.map[device_id].attributes
             hits == {i \in 1..Len(attrs) : attrs[i].name = attr_name}
         IN IF hits = {} THEN [err |-> "InvalidAttribute", attr |-> NoAttr]
            ELSE [err |-> "",
                  attr |-> attrs[CHOOSE i \in hits : \A j \in hits : i <= j]]

\* self.devices[device_id] = record
store_device(devs, device_id, record) ==
    IF ~devs.set THEN [err |-> "AttributeError", devs |-> devs]
    ELSE [err |-> "", devs |-> [devs EXCEPT !.map[device_id] = record]]

----------------------------------------------------------------------------
(* Validation of the hub's answers *)

\* The JSON the hub answers GET devices with: the list of its device summaries,
\* or (never sent by a real hub) one summary object.
ListAnswers == {"list", "dict"}

\* devices = DEVICE_SCHEMA(json), then `for dev in devices: dev["id"]`.
\* DEVICE_SCHEMA is a mapping schema: it rejects a list; a mapping passes, and
\* iterating it yields its keys, which are strings and cannot be indexed by "id".
summary_ids(answer, ids) ==
    IF answer = "list" THEN [err |-> "Invalid", ids |-> <<>>]
    ELSE [err |-> "TypeError", ids |-> <<>>]

\* the error a failing HTTP exchange raises in the awaiting coroutine
fetch_error(outcome) ==
    CASE outcome = "ok" -> ""
      [] outcome = "transport" -> "ClientError"
      [] outcome = "schema" -> "Invalid"

----------------------------------------------------------------------------
(* Initial state: nothing constructed yet *)

NoTask == [pc |-> "none", force |-> FALSE, todo |-> <<>>, err |-> "", ctx |-> ""]
NoRead == [dev |-> "", name |-> "", err |-> "", value |-> "", state |-> "", rec |-> NoRecord]
NoCmd == [dev |-> "", command |-> "", arg |-> PyNone, url |-> "", res |-> "", state |-> ""]
NoEvent == [kind |-> "", deviceId |-> "", name |-> "", value |-> ""]
NoLoad == [dev |-> "", force |-> FALSE, before |-> InitDevices, fetched |-> FALSE, res |-> ""]

\* a keyword argument async_turn_on was not given
Absent == -1
NoKw == [brightness |-> Absent, transition |-> Absent, hue |-> Absent, sat |-> Absent,
         color_temp |-> Absent]
NoBright == [asked |-> FALSE, err |-> "", value |-> 0]
NoLight == [pc |-> "idle", kw |-> NoKw, feat |-> {}, queue |-> <<>>, sent |-> <<>>,
            pending |-> 0, err |-> "", bright |-> NoBright]

Init ==
    /\ hub = NoHub
    /\ ctorArgs = NoArgs
    /\ ctorResult = "none"
    /\ info = InitInfo
    /\ devices = InitDevices
    /\ listeners = [d \in DeviceIds |-> <<>>]
    /\ connectPc = "idle"
    /\ connectErr = ""
    /\ infoTask = "none"
    /\ devTask = NoTask
    /\ fetches = <<>>
    /\ reqs = <<>>
    /\ hubFault = FALSE
    /\ hubVal \in [DeviceIds -> {"10"}]
    /\ lastPayload = [d \in DeviceIds |-> ""]
    /\ listed = <<>>
    /\ lastRefresh = [dev |-> "", res |-> "", registered |-> <<>>, overlapped |-> FALSE]
    /\ lastLoad = NoLoad
    /\ light = NoLight
    /\ invoked = <<>>
    /\ lastRead = NoRead
    /\ lastCmd = NoCmd
    /\ lastEvent = [src |-> "", body |-> NoEvent, res |-> ""]
    /\ bus = <<>>

\* a request as the transport sees it; state is the caller-visible connect state then
Req(op, url, dev) ==
    [op |-> op, method |-> "GET", url |-> url, dev |-> dev, state |-> connectPc]

InfoReq == Req("info", "http://" \o hub.host \o "/hub/edit", "")
ListReq == Req("list", hub.api \o "/devices", "")
DeviceReq(d) == Req("device", hub.api \o "/devices/" \o d, d)

----------------------------------------------------------------------------
(* HubitatHub(host, app_id, access_token) *)

Construct(host, app_id, access_token) ==
    /\ ~hub.made
    /\ LET r == ctor_check(host, app_id, access_token) IN
        /\ ctorArgs' = <<host, app_id, access_token>>
        /\ ctorResult' = r
        /\ hub' = IF r = "ok"
                  THEN [made |-> TRUE, host |-> Str(host), app_id |-> Str(app_id),
                        token |-> Str(access_token), api |-> api_of(host, app_id)]
                  ELSE hub
    /\ UNCHANGED <<lastLoad, light,
                   info, devices, listeners, connectPc, connectErr, infoTask, devTask,
                   fetches, reqs, hubFault, hubVal, lastPayload, listed, lastRefresh,
                   invoked, lastRead, lastCmd, lastEvent, bus>>

----------------------------------------------------------------------------
(* _load_devices and _load_device *)

\* `if force_refresh or len(self.devices) == 0`: what the first line does
load_devices_begin(devs, force) ==
    IF force THEN "request"
    ELSE IF ~devs.set THEN "AttributeError"
    ELSE IF \A d \in DeviceIds : ~devs.map[d].present THEN "request"
    ELSE "return"

\* The loop `for dev in devices: state = await self._load_device(dev["id"], force)`
\* from the device at the head of todo: run until a fetch has to be awaited
\* (`if force_refresh or device_id not in self.devices`), the list is exhausted
\* or a line raises.
RECURSIVE loop_advance(_, _, _)
loop_advance(devs, todo, force) ==
    IF todo = <<>> THEN [pc |-> "done", todo |-> <<>>, err |-> ""]
    ELSE IF force THEN [pc |-> "awaitDev", todo |-> todo, err |-> ""]
    ELSE IF ~devs.set THEN [pc |-> "failed", todo |-> todo, err |-> "AttributeError"]
    ELSE IF ~devs.map[Head(todo)].present THEN [pc |-> "awaitDev", todo |-> todo, err |-> ""]
    ELSE loop_advance(devs, Tail(todo), force)

\* the task record of a _load_devices call that has run to its first await
begin_task(force, ctx) ==
    LET b == load_devices_begin(devices, force) IN
    [pc |-> CASE b = "request" -> "awaitList" [] b = "return" -> "done" [] OTHER -> "failed",
     force |-> force, todo |-> <<>>,
     err |-> IF b = "AttributeError" THEN b ELSE "", ctx |-> ctx]

InFlight(t) == t.pc \in {"awaitList", "awaitDev"}

\* gather() hands the first exception of its tasks to the awaiting connect()
FirstErr(ctx, err) ==
    IF ctx = "connect" /\ connectPc = "gathering" /\ connectErr = "" THEN err ELSE connectErr

----------------------------------------------------------------------------
(* connect(): await gather(self._load_info(), self._load_devices()) *)

\* The call: both coroutines become tasks and run, in this order, to their first
\* await: _load_info issues GET /hub/edit, _load_devices runs its first line.
ConnectCall ==
    /\ hub.made
    /\ connectPc # "gathering"
    /\ infoTask # "awaiting"
    /\ ~InFlight(devTask)
    /\ Len(reqs) + 2 <= MaxReqs
    /\ LET t == begin_task(FALSE, "connect") IN
        /\ devTask' = t
        /\ reqs' = reqs \o <<InfoReq>> \o (IF t.pc = "awaitList" THEN <<ListReq>> ELSE <<>>)
        /\ connectErr' = t.err
    /\ connectPc' = "gathering"
    /\ infoTask' = "awaiting"
    /\ hubFault' = FALSE
    /\ listed' = <<>>
    /\ UNCHANGED <<lastLoad, light,
                   hub, ctorArgs, ctorResult, info, devices, listeners, fetches, hubVal,
                   lastPayload, lastRefresh, invoked, lastRead, lastCmd, lastEvent, bus>>

\* _load_info resumes with the answer to GET /hub/edit: parse it, assign
\* self.info, then format self.devices into the debug message.
LoadInfoResp(outcome) ==
    /\ infoTask = "awaiting"
    /\ LET err == CASE outcome = "transport" -> "ClientError"
                    [] outcome = "parse" -> "AttributeError"
                    [] outcome = "ok" -> IF devices.set THEN "" ELSE "AttributeError"
       IN /\ info' = IF outcome = "ok" THEN "details" ELSE info
          /\ infoTask' = IF err = "" THEN "done" ELSE "failed"
          /\ connectErr' = IF err = "" THEN connectErr ELSE FirstErr("connect", err)
    /\ hubFault' = (hubFault \/ outcome # "ok")
    /\ UNCHANGED <<lastLoad, light,
                   hub, ctorArgs, ctorResult, devices, listeners, connectPc, devTask,
                   fetches, reqs, hubVal, lastPayload, listed, lastRefresh, invoked,
                   lastRead, lastCmd, lastEvent, bus>>

\* connect() resumes: with the first exception of a task, or when both are done
ConnectReturn ==
    /\ connectPc = "gathering"
    /\ connectErr # "" \/ (infoTask = "done" /\ devTask.pc = "done")
    /\ connectPc' = IF connectErr # "" THEN "failed" ELSE "ok"
    /\ UNCHANGED <<lastLoad, light,
                   hub, ctorArgs, ctorResult, info, devices, listeners, connectErr,
                   infoTask, devTask, fetches, reqs, hubFault, hubVal, lastPayload,
                   listed, lastRefresh, invoked, lastRead, lastCmd, lastEvent, bus>>

----------------------------------------------------------------------------
(* _load_devices(force_refresh) called on its own *)

LoadDevicesCall(force) ==
    /\ hub.made
    /\ connectPc # "gathering"
    /\ ~InFlight(devTask)
    /\ Len(reqs) < MaxReqs
    /\ LET t == begin_task(force, "direct") IN
        /\ devTask' = t
        /\ reqs' = IF t.pc = "awaitList" THEN Append(reqs, ListReq) ELSE reqs
    /\ hubFault' = FALSE
    /\ listed' = <<>>
    /\ UNCHANGED <<lastLoad, light,
                   hub, ctorArgs, ctorResult, info, devices, listeners, connectPc,
                   connectErr, infoTask, fetches, hubVal, lastPayload, lastRefresh,
                   invoked, lastRead, lastCmd, lastEvent, bus>>

\* _load_devices resumes with the answer to GET devices
LoadDevicesListResp(answer) ==
    /\ devTask.pc = "awaitList"
    /\ LET s == IF answer = "transport" THEN [err |-> "ClientError", ids |-> <<>>]
                ELSE summary_ids(answer, HubDevices)
           a == IF s.err # "" THEN [pc |-> "failed", todo |-> <<>>, err |-> s.err]
                ELSE loop_advance(devices, s.ids, devTask.force)
       IN /\ a.pc = "awaitDev" => Len(reqs) < MaxReqs /\ Len(fetches) < MaxFetches
          /\ devTask' = [devTask EXCEPT !.pc = a.pc, !.todo = a.todo, !.err = a.err]
          /\ connectErr' = IF a.err = "" THEN connectErr ELSE FirstErr(devTask.ctx, a.err)
          /\ fetches' = IF a.pc = "awaitDev"
                        THEN Append(fetches, [dev |-> Head(a.todo), owner |-> "loadAll", ov |-> FALSE])
                        ELSE fetches
          /\ reqs' = IF a.pc = "awaitDev" THEN Append(reqs, DeviceReq(Head(a.todo))) ELSE reqs
    /\ listed' = IF answer = "list" THEN HubDevices ELSE listed
    /\ hubFault' = (hubFault \/ answer # "list")
    /\ UNCHANGED <<lastLoad, light,
                   hub, ctorArgs, ctorResult, info, devices, listeners, connectPc,
                   infoTask, hubVal, lastPayload, lastRefresh, invoked, lastRead,
                   lastCmd, lastEvent, bus>>

----------------------------------------------------------------------------
(* Listener registry and refresh_device *)

ListenerIds == {"L1", "L2"}

\* notify(device_id): every listener of the device, in registration order
notify(ls, device_id) == ls[device_id]

AddDeviceListener(device_id, l) ==
    /\ hub.made
    /\ Len(listeners[device_id]) < MaxListeners
    /\ listeners' = [listeners EXCEPT ![device_id] = Append(@, l)]
    /\ UNCHANGED <<lastLoad, light,
                   hub, ctorArgs, ctorResult, info, devices, connectPc, connectErr,
                   infoTask, devTask, fetches, reqs, hubFault, hubVal, lastPayload,
                   listed, lastRefresh, invoked, lastRead, lastCmd, lastEvent, bus>>

RemoveDeviceListeners(device_id) ==
    /\ hub.made
    /\ listeners[device_id] # <<>>
    /\ listeners' = [listeners EXCEPT ![device_id] = <<>>]
    /\ UNCHANGED <<lastLoad, light,
                   hub, ctorArgs, ctorResult, info, devices, connectPc, connectErr,
                   infoTask, devTask, fetches, reqs, hubFault, hubVal, lastPayload,
                   listed, lastRefresh, invoked, lastRead, lastCmd, lastEvent, bus>>

\* some refresh of the device is awaiting its response
InFlightFor(q, device_id) ==
    \E j \in 1..Len(q) : q[j].dev = device_id /\ q[j].owner = "refresh"

\* the refreshes of the device now in flight are overlapped by one more
Overlap(q, device_id) ==
    [j \in 1..Len(q) |->
        IF q[j].dev = device_id /\ q[j].owner = "refresh" THEN [q[j] EXCEPT !.ov = TRUE]
        ELSE q[j]]

\* refresh_device(device_id): _load_device(device_id, True) runs to its await
RefreshDevice(device_id) ==
    /\ hub.made
    /\ Len(fetches) < MaxFetches
    /\ Len(reqs) < MaxReqs
    /\ fetches' = Append(Overlap(fetches, device_id),
                         [dev |-> device_id, owner |-> "refresh",
                          ov |-> InFlightFor(fetches, device_id)])
    /\ reqs' = Append(reqs, DeviceReq(device_id))
    /\ UNCHANGED <<lastLoad, light,
                   hub, ctorArgs, ctorResult, info, devices, listeners, connectPc,
                   connectErr, infoTask, devTask, hubFault, hubVal, lastPayload, listed,
                   lastRefresh, invoked, lastRead, lastCmd, lastEvent, bus>>

\* `if force_refresh or device_id not in self.devices`: what the first line of
\* _load_device does
load_device_begin(devs, device_id, force) ==
    IF force THEN "request"
    ELSE IF ~devs.set THEN "AttributeError"
    ELSE IF ~devs.map[device_id].present THEN "request"
    ELSE "return"

\* _load_device(device_id, force_refresh) called on its own and awaited: it runs
\* to its await, or returns the cached record, or raises
LoadDeviceCall(device_id, force) ==
    /\ hub.made
    /\ \A j \in 1..Len(fetches) : fetches[j].owner # "loadOne"
    /\ LET b == load_device_begin(devices, device_id, force) IN
        /\ b = "request" => Len(fetches) < MaxFetches /\ Len(reqs) < MaxReqs
        /\ fetches' = IF b = "request"
                      THEN Append(fetches, [dev |-> device_id, owner |-> "loadOne", ov |-> FALSE])
                      ELSE fetches
        /\ reqs' = IF b = "request" THEN Append(reqs, DeviceReq(device_id)) ELSE reqs
        /\ lastLoad' = [dev |-> device_id, force |-> force, before |-> devices,
                        fetched |-> b = "request",
                        res |-> CASE b = "request" -> "awaiting"
                                  [] b = "return" -> "cached"
                                  [] OTHER -> b]
    /\ UNCHANGED <<light, hub, ctorArgs, ctorResult, info, devices, listeners, connectPc,
                   connectErr, infoTask, devTask, hubFault, hubVal, lastPayload, listed,
                   lastRefresh, invoked, lastRead, lastCmd, lastEvent, bus>>

RemoveAt(q, i) == SubSeq(q, 1, i - 1) \o SubSeq(q, i + 1, Len(q))

\* _load_device resumes with the answer to GET devices/{id}:
\* self.devices[device_id] = DEVICE_INFO_SCHEMA(await resp.json()), and then its
\* caller goes on: refresh_device notifies, the loop of _load_devices stores the
\* record again and turns to the next device, a call made on its own returns.
DeviceFetchResp(i, outcome) ==
    /\ i \in 1..Len(fetches)
    /\ LET f == fetches[i]
           d == f.dev
           st == IF outcome = "ok" THEN store_device(devices, d, HubPayload(d, hubVal[d]))
                 ELSE [err |-> fetch_error(outcome), devs |-> devices]
           a == IF st.err # "" THEN [pc |-> "failed", todo |-> devTask.todo, err |-> st.err]
                ELSE loop_advance(st.devs, Tail(devTask.todo), devTask.force)
           more == f.owner = "loadAll" /\ a.pc = "awaitDev"
       IN /\ more => Len(reqs) < MaxReqs
          /\ devices' = st.devs
          /\ lastPayload' = IF outcome = "ok" THEN [lastPayload EXCEPT ![d] = hubVal[d]]
                            ELSE lastPayload
          /\ IF f.owner = "refresh"
             THEN /\ lastRefresh' = [dev |-> d, res |-> IF st.err = "" THEN "ok" ELSE st.err,
                                      registered |-> listeners[d], overlapped |-> f.ov]
                  /\ invoked' = IF st.err = "" THEN notify(listeners, d) ELSE <<>>
                  /\ fetches' = RemoveAt(fetches, i)
                  /\ UNCHANGED <<devTask, connectErr, reqs, hubFault, lastLoad>>
             ELSE IF f.owner = "loadOne"
             THEN /\ lastLoad' = [lastLoad EXCEPT !.res = IF st.err = "" THEN "ok" ELSE st.err]
                  /\ fetches' = RemoveAt(fetches, i)
                  /\ UNCHANGED <<devTask, connectErr, reqs, hubFault, lastRefresh, invoked>>
             ELSE /\ devTask' = [devTask EXCEPT !.pc = a.pc, !.todo = a.todo, !.err = a.err]
                  /\ connectErr' = IF a.err = "" THEN connectErr
                                   ELSE FirstErr(devTask.ctx, a.err)
                  /\ fetches' = IF more
                                THEN Append(RemoveAt(fetches, i),
                                            [dev |-> Head(a.todo), owner |-> "loadAll", ov |-> FALSE])
                                ELSE RemoveAt(fetches, i)
                  /\ reqs' = IF more THEN Append(reqs, DeviceReq(Head(a.todo))) ELSE reqs
                  /\ hubFault' = (hubFault \/ outcome # "ok")
                  /\ UNCHANGED <<lastRefresh, invoked, lastLoad>>
    /\ UNCHANGED <<light,
                   hub, ctorArgs, ctorResult, info, listeners, connectPc, infoTask,
                   hubVal, listed, lastRead, lastCmd, lastEvent, bus>>

----------------------------------------------------------------------------
(* send_command and get_device_attribute *)

\* a send_command that also tells the listeners of the device
SendCommandNotifies(call, outcome) ==
    /\ hub.made
    /\ Len(reqs) < MaxReqs
    /\ LET url == send_command_url(hub.api, call[1], call[2], call[3]) IN
        /\ reqs' = Append(reqs, Req("command", url, call[1]))
        /\ lastCmd' = [dev |-> call[1], command |-> call[2], arg |-> call[3], url |-> url,
                       res |-> IF outcome = "ok" THEN "text" ELSE fetch_error(outcome),
                       state |-> connectPc]
    /\ invoked' = notify(listeners, call[1])
    /\ UNCHANGED <<lastLoad, light,
                   hub, ctorArgs, ctorResult, info, devices, listeners, connectPc,
                   connectErr, infoTask, devTask, fetches, hubFault, hubVal, lastPayload,
                   listed, lastRefresh, lastRead, lastEvent, bus>>

\* send_command(device_id, command, arg): one GET of the url it builds
SendCommand(call, outcome) ==
    /\ hub.made
    /\ Len(reqs) < MaxReqs
    /\ LET url == send_command_url(hub.api, call[1], call[2], call[3]) IN
        /\ reqs' = Append(reqs, Req("command", url, call[1]))
        /\ lastCmd' = [dev |-> call[1], command |-> call[2], arg |-> call[3], url |-> url,
                       res |-> IF outcome = "ok" THEN "text" ELSE fetch_error(outcome),
                       state |-> connectPc]
    /\ UNCHANGED <<lastLoad, light,
                   hub, ctorArgs, ctorResult, info, devices, listeners, connectPc,
                   connectErr, infoTask, devTask, fetches, hubFault, hubVal, lastPayload,
                   listed, lastRefresh, invoked, lastRead, lastEvent, bus>>

GetDeviceAttribute(device_id, attr_name) ==
    /\ hub.made
    /\ LET r == get_device_attribute(devices, device_id, attr_name) IN
        lastRead' = [dev |-> device_id, name |-> attr_name, err |-> r.err,
                     value |-> r.attr.currentValue, state |-> connectPc,
                     rec |-> IF devices.set THEN devices.map[device_id] ELSE NoRecord]
    /\ UNCHANGED <<lastLoad, light,
                   hub, ctorArgs, ctorResult, info, devices, listeners, connectPc,
                   connectErr, infoTask, devTask, fetches, reqs, hubFault, hubVal,
                   lastPayload, listed, lastRefresh, invoked, lastCmd, lastEvent, bus>>

----------------------------------------------------------------------------
(* Events pushed by the hub *)

\* a webhook body: undecodable, a JSON list, or a JSON object; deviceId "" is an
\* object without a device id
Body(kind, deviceId, name) == [kind |-> kind, deviceId |-> deviceId, name |-> name, value |-> "50"]
Bodies ==
    { Body("badjson", "", ""), Body("list", "", ""),
      Body("dict", "", "level"), Body("dict", "99", "level"),
      Body("dict", "42", "level"), Body("dict", "42", "bogus") }

\* an update that creates the record of a device it does not find
update_state_create(devs, event) ==
    IF event.deviceId \in DeviceIds
    THEN [set |-> TRUE,
          map |-> [devs.map EXCEPT ![event.deviceId] =
                      [present |-> TRUE, id |-> event.deviceId,
                       attributes |-> <<[name |-> event.name, currentValue |-> event.value]>>]]]
    ELSE devs

\* update_state(event): `pass`
update_state(devs, event) == devs

\* what handle_event does with a body: "dropped" on a ValueError of request.json(),
\* else the event is fired on the bus
handle_event(body) == IF body.kind = "badjson" THEN "dropped" ELSE "fired"

LastN(q, n) == IF Len(q) <= n THEN q ELSE SubSeq(q, Len(q) - n + 1, Len(q))

HandleEvent(body) ==
    /\ hub.made
    /\ LET r == handle_event(body) IN
        /\ lastEvent' = [src |-> "handle_event", body |-> body, res |-> r]
        /\ bus' = IF r = "fired"
                  THEN LastN(Append(bus, [body |-> body, webhook_id |-> body.kind = "dict"]),
                             MaxBus)
                  ELSE bus
    /\ UNCHANGED <<lastLoad, light,
                   hub, ctorArgs, ctorResult, info, devices, listeners, connectPc,
                   connectErr, infoTask, devTask, fetches, reqs, hubFault, hubVal,
                   lastPayload, listed, lastRefresh, invoked, lastRead, lastCmd>>

UpdateState(body) ==
    /\ hub.made
    /\ body.kind = "dict"
    /\ devices' = update_state(devices, body)
    /\ lastEvent' = [src |-> "update_state", body |-> body, res |-> "returned"]
    /\ UNCHANGED <<lastLoad, light,
                   hub, ctorArgs, ctorResult, info, listeners, connectPc, connectErr,
                   infoTask, devTask, fetches, reqs, hubFault, hubVal, lastPayload,
                   listed, lastRefresh, invoked, lastRead, lastCmd, bus>>

\* the hub-side level of a device changes
HubChange(d, v) ==
    /\ hubVal[d] # v
    /\ hubVal' = [hubVal EXCEPT ![d] = v]
    /\ UNCHANGED <<lastLoad, light,
                   hub, ctorArgs, ctorResult, info, devices, listeners, connectPc,
                   connectErr, infoTask, devTask, fetches, reqs, hubFault, lastPayload,
                   listed, lastRefresh, invoked, lastRead, lastCmd, lastEvent, bus>>

----------------------------------------------------------------------------
(* HubitatLight (light.py), the entity of device 42 *)

LightDevice == "42"

\* names light.py imports from hubitat.py
COMMAND_ON == "on"
COMMAND_SET_LEVEL == "setLevel"
COMMAND_SET_COLOR == "setColor"
COMMAND_SET_HUE == "setHue"
COMMAND_SET_SAT == "setSaturation"
COMMAND_SET_COLOR_TEMP == "setColorTemperature"
CAPABILITY_SWITCH_LEVEL == "SwitchLevel"
CAPABILITY_COLOR_CONTROL == "ColorControl"
CAPABILITY_COLOR_TEMP == "ColorTemperature"

SUPPORT_BRIGHTNESS == "brightness"
SUPPORT_COLOR == "color"
SUPPORT_COLOR_TEMP == "color_temp"

\* supported_features: the feature flags, as a set, of a capability list
supported_features(caps) ==
    (IF CAPABILITY_COLOR_CONTROL \in caps THEN {SUPPORT_COLOR} ELSE {})
        \cup (IF CAPABILITY_COLOR_TEMP \in caps THEN {SUPPORT_COLOR_TEMP} ELSE {})
        \cup (IF CAPABILITY_SWITCH_LEVEL \in caps THEN {SUPPORT_BRIGHTNESS} ELSE {})

\* supports_feature: self.supported_features & feature != 0
supports_feature(caps, feature) == feature \in supported_features(caps)

\* int(100 * brightness / 255): int() truncates
level_of(brightness) == (100 * brightness) \div 255

\* int(100 * hue / 360)
hue_of(hue) == (100 * hue) \div 360

\* color_util.color_temperature_mired_to_kelvin(mireds)
color_temperature_mired_to_kelvin(mireds) == 1000000 \div mireds

\* the props async_turn_on collects from its keyword arguments
turn_on_props(kw, caps) ==
    [level |-> IF kw.brightness # Absent /\ supports_feature(caps, SUPPORT_BRIGHTNESS)
               THEN level_of(kw.brightness) ELSE Absent,
     time |-> kw.transition,
     hue |-> IF kw.hue # Absent /\ supports_feature(caps, SUPPORT_COLOR)
             THEN hue_of(kw.hue) ELSE Absent,
     sat |-> IF kw.hue # Absent /\ supports_feature(caps, SUPPORT_COLOR)
             THEN kw.sat ELSE Absent,
     temp |-> IF kw.color_temp # Absent /\ supports_feature(caps, SUPPORT_COLOR_TEMP)
              THEN color_temperature_mired_to_kelvin(kw.color_temp) ELSE Absent]

\* self._send_command(command, *args): the command and its joined argument
Cmd(command, args) ==
    [command |-> command, args |-> args,
     arg |-> join_args([i \in 1..Len(args) |-> PyInt(args[i])])]

\* an async_turn_on that forgets `del props["hue"]` after setColor
turn_on_commands_keeps_hue(kw, caps) ==
    LET props == turn_on_props(kw, caps)
        first == IF props.level # Absent
                 THEN IF props.time # Absent
                      THEN Cmd(COMMAND_SET_LEVEL, <<props.level, props.time>>)
                      ELSE IF props.hue # Absent
                      THEN Cmd(COMMAND_SET_COLOR, <<props.hue, props.sat, props.level>>)
                      ELSE Cmd(COMMAND_SET_LEVEL, <<props.level>>)
                 ELSE Cmd(COMMAND_ON, <<>>)
    IN <<first>>
       \o (IF props.hue # Absent
           THEN <<Cmd(COMMAND_SET_HUE, <<props.hue>>), Cmd(COMMAND_SET_SAT, <<props.sat>>)>>
           ELSE <<>>)
       \o (IF props.temp # Absent THEN <<Cmd(COMMAND_SET_COLOR_TEMP, <<props.temp>>)>>
           ELSE <<>>)

\* the commands async_turn_on sends, in order, when none of them fails
turn_on_commands(kw, caps) ==
    LET props == turn_on_props(kw, caps)
        first == IF props.level # Absent
                 THEN IF props.time # Absent
                      THEN Cmd(COMMAND_SET_LEVEL, <<props.level, props.time>>)
                      ELSE IF props.hue # Absent
                      THEN Cmd(COMMAND_SET_COLOR, <<props.hue, props.sat, props.level>>)
                      ELSE Cmd(COMMAND_SET_LEVEL, <<props.level>>)
                 ELSE Cmd(COMMAND_ON, <<>>)
        \* `del props["hue"]` ran iff setColor was sent
        hueLeft == props.hue # Absent /\ ~(props.level # Absent /\ props.time = Absent)
    IN <<first>>
       \o (IF hueLeft
           THEN <<Cmd(COMMAND_SET_HUE, <<props.hue>>), Cmd(COMMAND_SET_SAT, <<props.sat>>)>>
           ELSE <<>>)
       \o (IF props.temp # Absent THEN <<Cmd(COMMAND_SET_COLOR_TEMP, <<props.temp>>)>>
           ELSE <<>>)

\* keyword arguments and capability lists the model calls async_turn_on with
KwInputs ==
    { [brightness |-> b, transition |-> t, hue |-> h,
       sat |-> IF h = Absent THEN Absent ELSE 50, color_temp |-> c] :
        b \in {Absent, 0, 2, 255}, t \in {Absent, 3}, h \in {Absent, 180},
        c \in {Absent, 370} }
CapInputs ==
    SUBSET {CAPABILITY_SWITCH_LEVEL, CAPABILITY_COLOR_CONTROL, CAPABILITY_COLOR_TEMP}

\* async_turn_on(**kwargs) runs to its first await: the first command is sent
TurnOnCall(kw, caps) ==
    /\ hub.made
    /\ light.pc # "awaiting"
    /\ LET plan == turn_on_commands(kw, caps) IN
        light' = [light EXCEPT !.pc = "awaiting", !.kw = kw, !.feat = supported_features(caps),
                               !.queue = Tail(plan), !.sent = <<Head(plan)>>,
                               !.pending = 1, !.err = ""]
    /\ UNCHANGED <<lastLoad, hub, ctorArgs, ctorResult, info, devices, listeners, connectPc,
                   connectErr, infoTask, devTask, fetches, reqs, hubFault, hubVal,
                   lastPayload, listed, lastRefresh, invoked, lastRead, lastCmd, lastEvent,
                   bus>>

\* the hub answers the command awaited: send_command returns or raises, and
\* async_turn_on sends its next command, returns, or fails with the exception
TurnOnResp(outcome) ==
    /\ light.pc = "awaiting"
    /\ LET c == light.sent[Len(light.sent)]
           err == fetch_error(outcome)
       IN /\ lastCmd' = [dev |-> LightDevice, command |-> c.command, arg |-> PyStr(c.arg),
                         url |-> send_command_url(hub.api, LightDevice, c.command,
                                                  PyStr(c.arg)),
                         res |-> IF err = "" THEN "text" ELSE err, state |-> connectPc]
          /\ light' = IF err # ""
                      THEN [light EXCEPT !.pc = "failed", !.pending = 0, !.err = err]
                      ELSE IF light.queue = <<>>
                      THEN [light EXCEPT !.pc = "done", !.pending = 0]
                      ELSE [light EXCEPT !.sent = Append(@, Head(light.queue)),
                                         !.queue = Tail(@)]
    /\ UNCHANGED <<lastLoad, hub, ctorArgs, ctorResult, info, devices, listeners, connectPc,
                   connectErr, infoTask, devTask, fetches, reqs, hubFault, hubVal,
                   lastPayload, listed, lastRefresh, invoked, lastRead, lastEvent, bus>>

\* int(s) of the level strings the hub reports
IntOf(s) == CASE s = "10" -> 10 [] s = "50" -> 50

\* HubitatDevice._get_attr(attr): get_device_attribute is a coroutine function
\* and is called without await, so dev_attr is a coroutine object and
\* dev_attr["currentValue"] raises TypeError
get_attr(devs, device_id, attr) == [err |-> "TypeError", value |-> ""]

\* the brightness property: int(255 * int(self._get_attr("level")) / 100)
brightness(devs, device_id) ==
    LET a == get_attr(devs, device_id, "level") IN
    IF a.err # "" THEN [asked |-> TRUE, err |-> a.err, value |-> 0]
    ELSE [asked |-> TRUE, err |-> "", value |-> (255 * IntOf(a.value)) \div 100]

ReadBrightness ==
    /\ hub.made
    /\ light' = [light EXCEPT !.bright = brightness(devices, LightDevice)]
    /\ UNCHANGED <<lastLoad, hub, ctorArgs, ctorResult, info, devices, listeners, connectPc,
                   connectErr, infoTask, devTask, fetches, reqs, hubFault, hubVal,
                   lastPayload, listed, lastRefresh, invoked, lastRead, lastCmd, lastEvent,
                   bus>>

----------------------------------------------------------------------------
(* Specification *)

ValidArgs == <<PyStr("hub"), PyStr("7"), PyStr("tok")>>
ConstructValid == Construct(ValidArgs[1], ValidArgs[2], ValidArgs[3])

\* connect and the loads it starts
Next ==
    \/ ConstructValid
    \/ ConnectCall
    \/ \E o \in {"ok", "transport", "parse"} : LoadInfoResp(o)
    \/ ConnectReturn
    \/ \E f \in BOOLEAN : LoadDevicesCall(f)
    \/ \E a \in ListAnswers \cup {"transport"} : LoadDevicesListResp(a)
    \/ \E d \in DeviceIds, n \in AttrNames : GetDeviceAttribute(d, n)

Spec == Init /\ [][Next]_vars

\* refreshes of single devices against a hub whose values change
NextRefresh ==
    \/ ConstructValid
    \/ \E d \in DeviceIds : RefreshDevice(d)
    \/ \E i \in 1..MaxFetches, o \in {"ok", "transport", "schema"} : DeviceFetchResp(i, o)
    \/ \E d \in DeviceIds, n \in AttrNames : GetDeviceAttribute(d, n)
    \/ \E v \in Levels : HubChange("42", v)

SpecRefresh == Init /\ [][NextRefresh]_vars

\* listeners and the refreshes that notify them
NextListeners ==
    \/ ConstructValid
    \/ \E d \in DeviceIds, l \in ListenerIds : AddDeviceListener(d, l)
    \/ \E d \in DeviceIds : RemoveDeviceListeners(d)
    \/ \E d \in DeviceIds : RefreshDevice(d)
    \/ \E i \in 1..MaxFetches, o \in {"ok", "transport", "schema"} : DeviceFetchResp(i, o)

SpecListeners == Init /\ [][NextListeners]_vars

\* construction and commands
NextCmd ==
    \/ \E h \in HostArgs, a \in AppIdArgs, t \in TokenArgs : Construct(h, a, t)
    \/ ConnectCall
    \/ \E o \in {"ok", "transport", "parse"} : LoadInfoResp(o)
    \/ ConnectReturn
    \/ \E c \in CommandCalls, o \in {"ok", "transport"} : SendCommand(c, o)
    \/ \E d \in DeviceIds : GetDeviceAttribute(d, "level")

SpecCmd == Init /\ [][NextCmd]_vars

\* pushed events
NextEvents ==
    \/ ConstructValid
    \/ \E b \in Bodies : HandleEvent(b)
    \/ \E b \in Bodies : UpdateState(b)
    \/ \E d \in DeviceIds : GetDeviceAttribute(d, "level")

SpecEvents == Init /\ [][NextEvents]_vars

\* commands sent while listeners are registered
NextCmdFrame ==
    \/ ConstructValid
    \/ \E l \in ListenerIds : AddDeviceListener("42", l)
    \/ RemoveDeviceListeners("42")
    \/ \E c \in CommandCalls, o \in {"ok", "transport"} : SendCommand(c, o)

SpecCmdFrame == Init /\ [][NextCmdFrame]_vars

\* state updates for devices the hub has delivered
NextUpdate ==
    \/ ConstructValid
    \/ \E d \in DeviceIds : RefreshDevice(d)
    \/ \E i \in 1..MaxFetches, o \in {"ok", "transport", "schema"} : DeviceFetchResp(i, o)
    \/ \E b \in Bodies : UpdateState(b)

SpecUpdate == Init /\ [][NextUpdate]_vars

\* loads of single devices, forced or not
NextLoad ==
    \/ ConstructValid
    \/ \E d \in DeviceIds, f \in BOOLEAN : LoadDeviceCall(d, f)
    \/ \E i \in 1..MaxFetches, o \in {"ok", "transport", "schema"} : DeviceFetchResp(i, o)
    \/ \E d \in DeviceIds, n \in AttrNames : GetDeviceAttribute(d, n)
    \/ \E v \in Levels : HubChange("42", v)

SpecLoad == Init /\ [][NextLoad]_vars

\* the light entity
NextLight ==
    \/ ConstructValid
    \/ \E kw \in KwInputs, caps \in CapInputs : TurnOnCall(kw, caps)
    \/ \E o \in {"ok", "transport"} : TurnOnResp(o)
    \/ ReadBrightness

SpecLight == Init /\ [][NextLight]_vars

\* pushed events while listeners are registered
NextPush ==
    \/ ConstructValid
    \/ \E l \in ListenerIds : AddDeviceListener("42", l)
    \/ RemoveDeviceListeners("42")
    \/ \E b \in Bodies : HandleEvent(b)

SpecPush == Init /\ [][NextPush]_vars

----------------------------------------------------------------------------
(* Claims *)

\* C1: once connect() has completed against a hub that answered every request
\* well, it has completed successfully and, for every device d of the hub's
\* summary list, get_device_attribute(d, n) returns a record whose currentValue
\* is the one of d's most recent full-info payload.
C1_ReadsMatchPayload ==
    (connectPc \in {"ok", "failed"} /\ ~hubFault) =>
        /\ connectPc = "ok"
        /\ \A i \in 1..Len(HubDevices) :
              LET r == get_device_attribute(devices, HubDevices[i], "level") IN
              r.err = "" /\ r.attr.currentValue = lastPayload[HubDevices[i]]

\* C2: connect() is all-or-nothing: after a successful connect() hub info and the
\* record of every listed device are there; after a failed connect() neither hub
\* info nor any device record is there to be used.
C2_AllOrNothing ==
    /\ connectPc = "ok" =>
          /\ info # Unset
          /\ devices.set
          /\ \A i \in 1..Len(listed) : devices.map[listed[i]].present
    /\ connectPc = "failed" =>
          /\ info = Unset
          /\ \A d \in DeviceIds : ~devices.map[d].present

\* C3: while the client is not Ready (connect() has not succeeded), send_command
\* and get_device_attribute fail with NotConnected, and no command request is
\* issued.
C3_NotConnected ==
    /\ \A i \in 1..Len(reqs) : reqs[i].op = "command" => reqs[i].state = "ok"
    /\ (lastCmd.command # "" /\ lastCmd.state # "ok") => lastCmd.res = "NotConnected"
    /\ (lastRead.dev # "" /\ lastRead.state # "ok") => lastRead.err = "NotConnected"

\* the devices fetched one by one since the last device-list fetch
FetchedSinceList ==
    LET lists == {i \in 1..Len(reqs) : reqs[i].op = "list"}
        last == CHOOSE i \in lists : \A j \in lists : j <= i
        after == SelectSeq(SubSeq(reqs, last + 1, Len(reqs)), LAMBDA r : r.op = "device")
    IN [i \in 1..Len(after) |-> after[i].dev]

\* C4: a load of all devices that the hub answered well has issued, after its one
\* device-list fetch, exactly one fetch per listed device, in list order, and
\* never two of them at once.
C4_SequentialFetches ==
    /\ Cardinality({i \in 1..Len(fetches) : fetches[i].owner = "loadAll"}) <= 1
    /\ (devTask.pc \in {"done", "failed"} /\ listed # <<>> /\ ~hubFault) =>
          FetchedSinceList = listed

\* C5: a refresh_device(d) that the hub answered well has invoked the listeners
\* registered for d, each once, in registration order, and no other listener.
C5_ListenersNotified ==
    (lastRefresh.dev # "" /\ lastRefresh.res \notin {"ClientError", "Invalid"}) =>
        invoked = lastRefresh.registered

\* an event that names no device, or a device or attribute the cache does not hold
UnknownTarget(body, devs) ==
    \/ body.deviceId \notin DeviceIds
    \/ ~devs.set
    \/ ~devs.map[body.deviceId].present
    \/ \A i \in 1..Len(devs.map[body.deviceId].attributes) :
          devs.map[body.deviceId].attributes[i].name # body.name

\* C6: handling an event that carries no device id, or names a device or
\* attribute the cache does not hold, completes without raising and leaves the
\* device cache as it was.
C6_UnknownEventIgnored ==
    [][(lastEvent' # lastEvent /\ lastEvent'.body.kind = "dict"
            /\ UnknownTarget(lastEvent'.body, devices))
        => (devices' = devices /\ lastEvent'.res \in {"fired", "returned"})]_vars

C6_Witness ==
    /\ lastEvent.src = "update_state"
    /\ lastEvent.body.deviceId = "99"
    /\ lastEvent.res = "returned"

\* an argument was given: anything but None and the empty join of no arguments
Given(arg) == arg.t = "int" \/ (arg.t = "str" /\ arg.s # "")

\* C7: send_command(id, command, arg) requests devices/{id}/{command}/{arg}
\* under the API base, and devices/{id}/{command} when no argument is given.
C7_CommandPath ==
    lastCmd.command # "" =>
        lastCmd.url = hub.api \o "/devices/" \o lastCmd.dev \o "/" \o lastCmd.command
                        \o (IF Given(lastCmd.arg) THEN "/" \o Str(lastCmd.arg) ELSE "")

Missing(x) == x = PyNone \/ x = PyStr("")

\* C8: constructing the hub with host, app_id and access_token all non-empty
\* succeeds with api = http://{host}/apps/api/{app_id}; with one of them empty
\* or missing it fails with InvalidConfig and there is no hub.
C8_Construction ==
    /\ ctorResult # "none" =>
          (ctorResult = "InvalidConfig" <=> \E i \in 1..3 : Missing(ctorArgs[i]))
    /\ ctorResult = "InvalidConfig" => ~hub.made
    /\ ctorResult = "ok" =>
          /\ hub.made
          /\ hub.api = "http://" \o ctorArgs[1].s \o "/apps/api/" \o ctorArgs[2].s

C8_Witness ==
    /\ ctorResult = "ok"
    /\ hub.api = "http://10.0.0.2/apps/api/7"

\* C9: get_device_attribute fails with InvalidAttribute when the device has no
\* record in the cache and when its record has no attribute of that name;
\* otherwise it returns the first attribute of that name.
C9_AttributeNotFound ==
    lastRead.dev # "" =>
        LET attrs == lastRead.rec.attributes
            hits == {i \in 1..Len(attrs) : attrs[i].name = lastRead.name}
        IN IF ~lastRead.rec.present \/ hits = {}
           THEN lastRead.err = "InvalidAttribute"
           ELSE /\ lastRead.err = ""
                /\ lastRead.value = attrs[CHOOSE i \in hits : \A j \in hits : i <= j].currentValue

\* C10: after a refresh of device d failed with a transport or schema error, d
\* still has its previous valid record, readable through get_device_attribute.
C10_StaleButValid ==
    (lastRefresh.res \in {"ClientError", "Invalid"} /\ lastPayload[lastRefresh.dev] # "") =>
        LET r == get_device_attribute(devices, lastRefresh.dev, "level") IN
        r.err = "" /\ r.attr.currentValue = lastPayload[lastRefresh.dev]

\* a step of send_command: one more request, and it is a command
CommandStep ==
    /\ Len(reqs') = Len(reqs) + 1
    /\ reqs'[Len(reqs')].op = "command"

\* C11: send_command leaves the device cache and the listener registry as they
\* were, whether its request succeeds or fails, and invokes no listener.
C11_CommandFrame ==
    [][CommandStep => (devices' = devices /\ listeners' = listeners /\ invoked' = invoked)]_vars

C11_Witness ==
    /\ lastCmd.dev = "42"
    /\ lastCmd.res = "ClientError"
    /\ listeners["42"] # <<>>

\* a step of update_state
UpdateStep == lastEvent' # lastEvent /\ lastEvent'.src = "update_state"

\* C12: update_state for an event that names a device whose full-info payload
\* the hub has delivered, and an attribute of that payload, replaces the
\* currentValue of that attribute: a read of it then returns the event's value.
C12_EventReplacesValue ==
    [][(/\ UpdateStep
        /\ lastEvent'.body.deviceId \in DeviceIds
        /\ lastPayload[lastEvent'.body.deviceId] # ""
        /\ lastEvent'.body.name \in {"level", "switch"})
       => LET r == get_device_attribute(devices', lastEvent'.body.deviceId,
                                        lastEvent'.body.name)
          IN r.err = "" /\ r.attr.currentValue = lastEvent'.body.value]_vars

\* a step of handle_event
HandleStep ==
    /\ lastEvent'.src = "handle_event"
    /\ (lastEvent' # lastEvent \/ bus' # bus)

\* C13: handle_event, given a well-formed event that names device d, applies the
\* update and then invokes every listener registered for d, in order.
C13_EventNotifies ==
    [][(/\ HandleStep
        /\ lastEvent'.body.kind = "dict"
        /\ lastEvent'.body.deviceId \in DeviceIds)
       => invoked' = notify(listeners, lastEvent'.body.deviceId)]_vars

\* C14: a delivery whose body does not decode, or decodes to something that is
\* not an object, is dropped: handle_event returns without firing it, and no
\* observer of the bus ever receives it.
C14_MalformedDropped ==
    /\ (lastEvent.src = "handle_event" /\ lastEvent.body.kind # "dict")
          => lastEvent.res = "dropped"
    /\ \A i \in 1..Len(bus) : bus[i].body.kind = "dict"

\* C15: once two overlapping refreshes of a device have both completed, the
\* cached record of the device is the payload of the one that completed last.
C15_LastRefreshWins ==
    (/\ lastRefresh.overlapped
     /\ lastRefresh.res \notin {"ClientError", "Invalid"}
     /\ ~InFlightFor(fetches, lastRefresh.dev))
    => /\ devices.set
       /\ devices.map[lastRefresh.dev] =
              HubPayload(lastRefresh.dev, lastPayload[lastRefresh.dev])

\* C16: while connect() has failed and has not been called again, the client
\* changes neither hub info nor the device cache, and the loads connect()
\* started issue no further request.
C16_FailedIsTerminal ==
    [][(connectPc = "failed" /\ connectPc' = "failed")
       => /\ info' = info
          /\ devices' = devices
          /\ (devTask'.ctx = "connect" => reqs' = reqs)]_vars

\* C17: _load_device(d, False) for a cached d returns the cached record and
\* fetches nothing; for an absent d, or with force_refresh, it issues one fetch
\* and, once the hub has answered well, the record of d is that payload and
\* every other record is as it was.
C17_LoadOne ==
    lastLoad.dev # "" =>
        IF ~lastLoad.force /\ lastLoad.before.set /\ lastLoad.before.map[lastLoad.dev].present
        THEN lastLoad.res = "cached" /\ ~lastLoad.fetched
        ELSE /\ lastLoad.fetched
             /\ lastLoad.res \notin {"awaiting", "ClientError", "Invalid"}
                   => /\ lastLoad.res = "ok"
                      /\ devices.set
                      /\ devices.map[lastLoad.dev] =
                             HubPayload(lastLoad.dev, lastPayload[lastLoad.dev])
                      /\ \A e \in DeviceIds \ {lastLoad.dev} :
                             devices.map[e] = lastLoad.before.map[e]

\* how many times listener l occurs in q
Count(q, l) == Cardinality({i \in 1..Len(q) : q[i] = l})

\* C18: a notify for a device (here through a refresh the hub answered well)
\* invokes nobody when the device has no listeners left, and otherwise invokes
\* each listener as many times as it was added for that device, whatever was
\* removed for other devices.
C18_RegistryNotify ==
    (lastRefresh.dev # "" /\ lastRefresh.res \notin {"ClientError", "Invalid"}) =>
        /\ lastRefresh.registered = <<>> => invoked = <<>>
        /\ \A l \in ListenerIds : Count(invoked, l) = Count(lastRefresh.registered, l)

\* round(n / d) for n >= 0, d > 0, ties to the even neighbour as Python rounds
RoundDiv(n, d) ==
    LET q == n \div d
        r == 2 * (n % d)
    IN IF r < d THEN q
       ELSE IF r > d THEN q + 1
       ELSE IF q % 2 = 0 THEN q ELSE q + 1

\* async_turn_on was given a brightness and the light supports it
LevelWanted == light.kw.brightness # Absent /\ SUPPORT_BRIGHTNESS \in light.feat
HueWanted == light.kw.hue # Absent /\ SUPPORT_COLOR \in light.feat
TempWanted == light.kw.color_temp # Absent /\ SUPPORT_COLOR_TEMP \in light.feat

\* the level a sent command carries (Absent if it carries none)
LevelIn(c) ==
    IF c.command = COMMAND_SET_LEVEL THEN c.args[1]
    ELSE IF c.command = COMMAND_SET_COLOR THEN c.args[3]
    ELSE Absent

\* C19: the level sent for a brightness b is round(100 * b / 255), and the
\* brightness reported for the hub's level l is round(255 * l / 100).
C19_BrightnessRounding ==
    /\ \A i \in 1..Len(light.sent) :
          (LevelWanted /\ LevelIn(light.sent[i]) # Absent)
             => LevelIn(light.sent[i]) = RoundDiv(100 * light.kw.brightness, 255)
    /\ light.bright.asked
          => /\ light.bright.err = ""
             /\ light.bright.value = RoundDiv(255 * IntOf(hubVal[LightDevice]), 100)

\* the commands sent so far that carry a level, a hue, a saturation, a temperature
LevelCarriers == {i \in 1..Len(light.sent) : LevelIn(light.sent[i]) # Absent}
HueCarriers ==
    {i \in 1..Len(light.sent) : light.sent[i].command \in {COMMAND_SET_COLOR, COMMAND_SET_HUE}}
SatCarriers ==
    {i \in 1..Len(light.sent) : light.sent[i].command \in {COMMAND_SET_COLOR, COMMAND_SET_SAT}}
TempCarriers ==
    {i \in 1..Len(light.sent) : light.sent[i].command = COMMAND_SET_COLOR_TEMP}

\* the value the i-th sent command carries at position k is v
Carries(i, k, v) == Len(light.sent[i].args) >= k /\ light.sent[i].args[k] = v

====
